---- MODULE Spec2Model ----
(***************************************************************************)
(* Control / dispatch core of the quantum-computer control layer.          *)
(*                                                                         *)
(* Two programs are modelled, each with its own main():                    *)
(*   variant = "single" : QuantumComputer      (src/QuantumComputerFull.cpp)*)
(*   variant = "multi"  : QuantumModule and QuantumSupercomputer           *)
(*                                              (src/unnamed/part_000)     *)
(* A behaviour runs one of the two; the caller invokes the public          *)
(* operations in any order with any arguments.                             *)
(*                                                                         *)
(* hw and audit hold the hardware calls and the audit records of the       *)
(* current call.  They stay visible when the call has returned (pc =       *)
(* "returned") and are emptied when the caller goes on (Continue), so the  *)
(* state space stays finite.  An audit record is the record handed to     *)
(* log(); the file the record goes to belongs to the external sink.        *)
(*                                                                         *)
(* ConcSpec (variant = "concurrent") is the QuantumComputer object shared  *)
(* by several calling threads; it has its own initial state and actions    *)
(* (CC_...) and is described where it is defined.                          *)
(***************************************************************************)
EXTENDS Integers, Sequences, FiniteSets, TLC

VARIABLES
    variant,     \* which program runs: "single", "multi" or "concurrent"
    callers,     \* "concurrent": the frame of every thread that calls into the object
    pc,          \* position of the calling thread
    call,        \* the current / last operation and its arguments
    calibrated,  \* QuantumComputer::calibrated (std::vector<bool>)
    modules,     \* QuantumSupercomputer::modules, each entry the module pointed to
    threads,     \* applyGateParallel: the spawned per-qubit threads
    log_mutex,   \* 0 when free, else the number of the task thread holding it
                 \* ("concurrent": the thread <<c, t>>, NoThread when free)
    idx,         \* loop position inside the current call
    unit_i,      \* calibrateAll: loop variable i of the inner loop
    shot,        \* loop variable s of the measurement loops
    votes,       \* measureLogical: votes of the current shot
    corrected,   \* measureLogical: result of the last decode (-1 before the first)
    results,     \* measurement result map under construction / returned
    hw,          \* hardware calls issued by the current call, in order
    audit        \* audit records appended by the current call, in order

vars == <<variant, callers, pc, call, calibrated, modules, threads, log_mutex, idx,
          unit_i, shot, votes, corrected, results, hw, audit>>

---------------------------------------------------------------------------
\* Bounds of the model.
NumQubits == 2
MaxTargets == 2
MaxGroup == 3
MaxShots == 2
MaxModules == 2

\* The valid unit indices of a module, and the indices a caller may pass:
\* NumQubits stands for any index outside the vector.
Units == 0 .. NumQubits - 1
Indices == 0 .. NumQubits

GateNames == {"H"}
TwoGateNames == {"CNOT"}

SeqUpTo(S, n) == UNION { [1 .. k -> S] : k \in 0 .. n }
Elems(s) == { s[i] : i \in 1 .. Len(s) }

\* The argument lists a caller passes.
TargetLists == SeqUpTo(Indices, MaxTargets)
MeasureLists == SeqUpTo(Units, MaxTargets)
Groups == SeqUpTo(Units, MaxGroup)
Shots == 0 .. MaxShots

RECURSIVE Sum(_)
Sum(s) == IF s = <<>> THEN 0 ELSE Head(s) + Sum(Tail(s))

NoModule == -1

---------------------------------------------------------------------------
\* Hardware interface: the calls are recorded, readState returns rand() % 2.
HwCalibrate(q, m) == [call |-> "calibrate", q |-> q, m |-> m]
HwPulse(q, g, m) == [call |-> "sendPulse", q |-> q, gate |-> g, m |-> m]
HwTwoPulse(q1, m1, q2, m2, g) ==
    [call |-> "sendTwoQubitPulse", q |-> q1, m |-> m1, q2 |-> q2, m2 |-> m2, gate |-> g]
HwRead(q, m) == [call |-> "readState", q |-> q, m |-> m]

ReadState == {0, 1}

\* std::vector<bool>::operator[] does no bounds check.  A read outside the
\* vector is undefined: it yields either value, or the process dies.
ReadFlag(cal, q) ==
    IF q \in DOMAIN cal
    THEN {[crash |-> FALSE, val |-> cal[q]]}
    ELSE {[crash |-> FALSE, val |-> TRUE], [crash |-> FALSE, val |-> FALSE],
          [crash |-> TRUE, val |-> FALSE]}

\* Mutant of WriteFlag: calibrated[q] = !calibrated[q].
ToggleFlag(cal, q) ==
    IF q \in DOMAIN cal
    THEN {[crash |-> FALSE, cal |-> [cal EXCEPT ![q] = ~@]]}
    ELSE {[crash |-> FALSE, cal |-> cal], [crash |-> TRUE, cal |-> cal]}

\* calibrated[q] = true.  Outside the vector the write sets a bit in memory
\* that is not one of the flags, or the process dies.
WriteFlag(cal, q) ==
    IF q \in DOMAIN cal
    THEN {[crash |-> FALSE, cal |-> [cal EXCEPT ![q] = TRUE]]}
    ELSE {[crash |-> FALSE, cal |-> cal], [crash |-> TRUE, cal |-> cal]}

\* Mutant of BothCalibrated: calibrated[q1] || calibrated[q2].
EitherCalibrated(cal, q1, q2) ==
    UNION { IF r1.crash \/ r1.val THEN {r1} ELSE ReadFlag(cal, q2)
            : r1 \in ReadFlag(cal, q1) }

\* calibrated[q1] && calibrated[q2], short-circuit.
BothCalibrated(cal, q1, q2) ==
    UNION { IF r1.crash \/ ~r1.val THEN {r1} ELSE ReadFlag(cal, q2)
            : r1 \in ReadFlag(cal, q1) }

\* std::to_string on the values the program passes to it.
to_string(v) ==
    CASE v = 0 -> "0" [] v = 1 -> "1" [] v = 2 -> "2" [] v = 3 -> "3"
      [] OTHER -> "other"

\* {{"0",0},{"1",0}}
ZeroHist == ("0" :> 0) @@ ("1" :> 0)

\* Mutant of MapIncrement: results[key] = 1.
MapIncrementOverwrite(m, key) ==
    IF key \in DOMAIN m THEN [m EXCEPT ![key] = 1] ELSE (key :> 1) @@ m

\* results[key]++ on a std::map<std::string,int>: a missing key is inserted at 0.
MapIncrement(m, key) ==
    IF key \in DOMAIN m THEN [m EXCEPT ![key] = @ + 1] ELSE (key :> 1) @@ m

\* Mutant of MoreShots: s <= shots.
MoreShotsInclusive(s, shots) == s <= shots

\* The loop test of the measurement loops: s < shots.
MoreShots(s, shots) == s < shots

\* Mutant of Decode: sum >= size()/2.
DecodeAtLeastHalf(v) == IF Sum(v) >= Len(v) \div 2 THEN 1 ELSE 0

\* int sum = accumulate(votes); corrected = (sum > size()/2) ? 1 : 0.
\* sum is a sum of readings 0/1, so its conversion to size_t keeps its value.
Decode(v) == IF Sum(v) > Len(v) \div 2 THEN 1 ELSE 0

---------------------------------------------------------------------------
NoCall == [op |-> "none"]

Init ==
    /\ variant \in {"single", "multi"}
    /\ callers = <<>>
    /\ pc = "idle"
    /\ call = NoCall
    /\ calibrated = [u \in Units |-> FALSE]
    /\ modules = <<>>
    /\ threads = <<>>
    /\ log_mutex = 0
    /\ idx = 0
    /\ unit_i = 0
    /\ shot = 0
    /\ votes = <<>>
    /\ corrected = -1
    /\ results = <<>>
    /\ hw = <<>>
    /\ audit = <<>>

\* A call starts: the per-call variables are those of a fresh stack frame.
Begin(c, firstHw, res) ==
    /\ call' = c
    /\ hw' = firstHw
    /\ audit' = <<>>
    /\ threads' = <<>>
    /\ idx' = 0
    /\ unit_i' = 0
    /\ shot' = 0
    /\ votes' = <<>>
    /\ corrected' = -1
    /\ results' = res

\* The caller has looked at what the call returned and did; the frame is gone.
Continue ==
    /\ pc = "returned"
    /\ pc' = "idle"
    /\ call' = NoCall
    /\ hw' = <<>>
    /\ audit' = <<>>
    /\ threads' = <<>>
    /\ idx' = 0
    /\ unit_i' = 0
    /\ shot' = 0
    /\ votes' = <<>>
    /\ corrected' = -1
    /\ results' = <<>>
    /\ UNCHANGED <<variant, callers, calibrated, modules, log_mutex>>

\* QuantumComputer::log called by the calling thread: lock, append, unlock.
MainLog(entry) ==
    /\ log_mutex = 0
    /\ audit' = Append(audit, entry)
    /\ UNCHANGED log_mutex

---------------------------------------------------------------------------
\* QuantumComputer::calibrateQubit

\* Mutant of QC_CalibrateQubit: the flag is set on entry, before the hardware
\* has been called.
QC_CalibrateQubitFlagFirst ==
    /\ variant = "single" /\ pc = "idle"
    /\ \E q \in Indices :
          /\ Begin([op |-> "calibrateQubit", q |-> q], <<>>, <<>>)
          /\ \E w \in WriteFlag(calibrated, q) : calibrated' = w.cal
    /\ pc' = "cal_flag"
    /\ UNCHANGED <<variant, callers, modules, log_mutex>>

QC_CalibrateQubit ==
    /\ variant = "single" /\ pc = "idle"
    /\ \E q \in Indices :
          Begin([op |-> "calibrateQubit", q |-> q], <<HwCalibrate(q, NoModule)>>, <<>>)
    /\ pc' = "cal_flag"
    /\ UNCHANGED <<variant, callers, calibrated, modules, log_mutex>>

QC_CalibrateSetFlag ==
    /\ variant = "single" /\ pc = "cal_flag"
    /\ \E w \in WriteFlag(calibrated, call.q) :
          /\ calibrated' = w.cal
          /\ pc' = IF w.crash THEN "crashed" ELSE "cal_log"
    /\ UNCHANGED <<variant, callers, call, modules, threads, log_mutex, idx, unit_i, shot,
                   votes, corrected, results, hw, audit>>

QC_CalibrateLog ==
    /\ variant = "single" /\ pc = "cal_log"
    /\ MainLog([action |-> "calibrate", qubit |-> call.q])
    /\ pc' = "returned"
    /\ UNCHANGED <<variant, callers, call, calibrated, modules, threads, idx, unit_i, shot,
                   votes, corrected, results, hw>>

---------------------------------------------------------------------------
\* QuantumComputer::applyGateParallel

QC_ApplyGateParallel ==
    /\ variant = "single" /\ pc = "idle"
    /\ \E g \in GateNames, qubits \in TargetLists :
          Begin([op |-> "applyGateParallel", gate |-> g, qubits |-> qubits], <<>>, <<>>)
    /\ pc' = "gate"
    /\ UNCHANGED <<variant, callers, calibrated, modules, log_mutex>>

\* threads.emplace_back(...) for the next q of the list
QC_GateSpawn ==
    /\ variant = "single" /\ pc = "gate"
    /\ Len(threads) < Len(call.qubits)
    /\ threads' = Append(threads, [q |-> call.qubits[Len(threads) + 1], st |-> "ready"])
    /\ UNCHANGED <<variant, callers, pc, call, calibrated, modules, log_mutex, idx, unit_i,
                   shot, votes, corrected, results, hw, audit>>

\* Mutant of QC_TaskCheck: the thread body without its calibration test.
QC_TaskCheckUnguarded(t) ==
    /\ variant = "single" /\ pc = "gate"
    /\ t \in 1 .. Len(threads) /\ threads[t].st = "ready"
    /\ threads' = [threads EXCEPT ![t].st = "pulse"]
    /\ UNCHANGED <<variant, callers, pc, call, calibrated, modules, log_mutex, idx, unit_i,
                   shot, votes, corrected, results, hw, audit>>

\* the thread body: if (calibrated[q])
QC_TaskCheck(t) ==
    /\ variant = "single" /\ pc = "gate"
    /\ t \in 1 .. Len(threads) /\ threads[t].st = "ready"
    /\ \E r \in ReadFlag(calibrated, threads[t].q) :
          IF r.crash
          THEN pc' = "crashed" /\ UNCHANGED threads
          ELSE /\ threads' = [threads EXCEPT ![t].st = IF r.val THEN "pulse" ELSE "done"]
               /\ UNCHANGED pc
    /\ UNCHANGED <<variant, callers, call, calibrated, modules, log_mutex, idx, unit_i,
                   shot, votes, corrected, results, hw, audit>>

\* HardwareInterface::sendPulse(q, gate)
QC_TaskPulse(t) ==
    /\ variant = "single" /\ pc = "gate"
    /\ t \in 1 .. Len(threads) /\ threads[t].st = "pulse"
    /\ hw' = Append(hw, HwPulse(threads[t].q, call.gate, NoModule))
    /\ threads' = [threads EXCEPT ![t].st = "log"]
    /\ UNCHANGED <<variant, callers, pc, call, calibrated, modules, log_mutex, idx, unit_i,
                   shot, votes, corrected, results, audit>>

\* log(): std::lock_guard<std::mutex> guard(log_mutex)
QC_TaskLogLock(t) ==
    /\ variant = "single" /\ pc = "gate"
    /\ t \in 1 .. Len(threads) /\ threads[t].st = "log"
    /\ log_mutex = 0
    /\ log_mutex' = t
    /\ threads' = [threads EXCEPT ![t].st = "locked"]
    /\ UNCHANGED <<variant, callers, pc, call, calibrated, modules, idx, unit_i, shot,
                   votes, corrected, results, hw, audit>>

\* log(): the record is written, the guard releases the mutex, the thread ends
QC_TaskLogWrite(t) ==
    /\ variant = "single" /\ pc = "gate"
    /\ t \in 1 .. Len(threads) /\ threads[t].st = "locked"
    /\ audit' = Append(audit, [action |-> "gate", gate |-> call.gate,
                               qubits |-> <<threads[t].q>>])
    /\ log_mutex' = 0
    /\ threads' = [threads EXCEPT ![t].st = "done"]
    /\ UNCHANGED <<variant, callers, pc, call, calibrated, modules, idx, unit_i, shot,
                   votes, corrected, results, hw>>

\* Mutant of QC_GateJoin: the thread is detached, not joined.
QC_GateJoinNoWait ==
    /\ variant = "single" /\ pc = "gate"
    /\ Len(threads) = Len(call.qubits)
    /\ idx < Len(threads)
    /\ idx' = idx + 1
    /\ UNCHANGED <<variant, callers, pc, call, calibrated, modules, threads, log_mutex,
                   unit_i, shot, votes, corrected, results, hw, audit>>

\* for (auto &t : threads) t.join(): idx threads have been joined
QC_GateJoin ==
    /\ variant = "single" /\ pc = "gate"
    /\ Len(threads) = Len(call.qubits)
    /\ idx < Len(threads)
    /\ threads[idx + 1].st = "done"
    /\ idx' = idx + 1
    /\ UNCHANGED <<variant, callers, pc, call, calibrated, modules, threads, log_mutex,
                   unit_i, shot, votes, corrected, results, hw, audit>>

QC_GateReturn ==
    /\ variant = "single" /\ pc = "gate"
    /\ Len(threads) = Len(call.qubits)
    /\ idx = Len(threads)
    /\ pc' = "returned"
    /\ UNCHANGED <<variant, callers, call, calibrated, modules, threads, log_mutex, idx,
                   unit_i, shot, votes, corrected, results, hw, audit>>

---------------------------------------------------------------------------
\* QuantumComputer::applyTwoQubitGate

QC_ApplyTwoQubitGate ==
    /\ variant = "single" /\ pc = "idle"
    /\ \E g \in TwoGateNames, q1 \in Indices, q2 \in Indices :
          /\ Begin([op |-> "applyTwoQubitGate", gate |-> g, q1 |-> q1, q2 |-> q2],
                   <<>>, <<>>)
          /\ \E r \in BothCalibrated(calibrated, q1, q2) :
                pc' = IF r.crash THEN "crashed"
                      ELSE IF r.val THEN "two_pulse" ELSE "returned"
    /\ UNCHANGED <<variant, callers, calibrated, modules, log_mutex>>

QC_TwoPulse ==
    /\ variant = "single" /\ pc = "two_pulse"
    /\ hw' = Append(hw, HwTwoPulse(call.q1, NoModule, call.q2, NoModule, call.gate))
    /\ pc' = "two_log"
    /\ UNCHANGED <<variant, callers, call, calibrated, modules, threads, log_mutex, idx,
                   unit_i, shot, votes, corrected, results, audit>>

QC_TwoLog ==
    /\ variant = "single" /\ pc = "two_log"
    /\ MainLog([action |-> "two_qubit_gate", gate |-> call.gate,
                qubits |-> <<call.q1, call.q2>>])
    /\ pc' = "returned"
    /\ UNCHANGED <<variant, callers, call, calibrated, modules, threads, idx, unit_i, shot,
                   votes, corrected, results, hw>>

---------------------------------------------------------------------------
\* QuantumComputer::measurePhysical

QC_MeasurePhysical ==
    /\ variant = "single" /\ pc = "idle"
    /\ \E qubits \in MeasureLists, shots \in Shots :
          Begin([op |-> "measurePhysical", qubits |-> qubits, shots |-> shots], <<>>,
                [q \in Elems(qubits) |-> ZeroHist])
    /\ pc' = "mp_loop"
    /\ UNCHANGED <<variant, callers, calibrated, modules, log_mutex>>

\* int val = readState(q); results[q][std::to_string(val)]++
QC_MPRead ==
    /\ variant = "single" /\ pc = "mp_loop"
    /\ MoreShots(shot, call.shots) /\ idx < Len(call.qubits)
    /\ LET q == call.qubits[idx + 1] IN
       \E val \in ReadState :
          /\ hw' = Append(hw, HwRead(q, NoModule))
          /\ results' = [results EXCEPT ![q] = MapIncrement(@, to_string(val))]
    /\ idx' = idx + 1
    /\ UNCHANGED <<variant, callers, pc, call, calibrated, modules, threads, log_mutex,
                   unit_i, shot, votes, corrected, audit>>

\* the inner loop is over: s++
QC_MPNextShot ==
    /\ variant = "single" /\ pc = "mp_loop"
    /\ MoreShots(shot, call.shots) /\ idx = Len(call.qubits)
    /\ shot' = shot + 1
    /\ idx' = 0
    /\ UNCHANGED <<variant, callers, pc, call, calibrated, modules, threads, log_mutex,
                   unit_i, votes, corrected, results, hw, audit>>

QC_MPLog ==
    /\ variant = "single" /\ pc = "mp_loop"
    /\ ~MoreShots(shot, call.shots)
    /\ MainLog([action |-> "measure_physical", qubits |-> call.qubits,
                shots |-> call.shots, results |-> results])
    /\ pc' = "returned"
    /\ UNCHANGED <<variant, callers, call, calibrated, modules, threads, idx, unit_i, shot,
                   votes, corrected, results, hw>>

---------------------------------------------------------------------------
\* QuantumComputer::measureLogical

QC_MeasureLogical ==
    /\ variant = "single" /\ pc = "idle"
    /\ \E group \in Groups, shots \in Shots :
          Begin([op |-> "measureLogical", qubits |-> group, shots |-> shots], <<>>,
                ZeroHist)
    /\ pc' = "ml_loop"
    /\ UNCHANGED <<variant, callers, calibrated, modules, log_mutex>>

\* Mutant of QC_MLRead: an uncalibrated unit is not read and votes 0.
QC_MLReadCalibratedOnly ==
    /\ variant = "single" /\ pc = "ml_loop"
    /\ MoreShots(shot, call.shots) /\ idx < Len(call.qubits)
    /\ \E val \in ReadState :
          IF calibrated[call.qubits[idx + 1]]
          THEN /\ hw' = Append(hw, HwRead(call.qubits[idx + 1], NoModule))
               /\ votes' = IF idx = 0 THEN <<val>> ELSE Append(votes, val)
          ELSE /\ hw' = hw
               /\ votes' = IF idx = 0 THEN <<0>> ELSE Append(votes, 0)
    /\ idx' = idx + 1
    /\ UNCHANGED <<variant, callers, pc, call, calibrated, modules, threads, log_mutex,
                   unit_i, shot, corrected, results, audit>>

\* votes.push_back(readState(q)); votes is a fresh vector in every shot
QC_MLRead ==
    /\ variant = "single" /\ pc = "ml_loop"
    /\ MoreShots(shot, call.shots) /\ idx < Len(call.qubits)
    /\ \E val \in ReadState :
          /\ hw' = Append(hw, HwRead(call.qubits[idx + 1], NoModule))
          /\ votes' = IF idx = 0 THEN <<val>> ELSE Append(votes, val)
    /\ idx' = idx + 1
    /\ UNCHANGED <<variant, callers, pc, call, calibrated, modules, threads, log_mutex,
                   unit_i, shot, corrected, results, audit>>

\* sum, corrected, results[std::to_string(corrected)]++, s++
QC_MLDecode ==
    /\ variant = "single" /\ pc = "ml_loop"
    /\ MoreShots(shot, call.shots) /\ idx = Len(call.qubits)
    /\ corrected' = Decode(votes)
    /\ results' = MapIncrement(results, to_string(Decode(votes)))
    /\ shot' = shot + 1
    /\ idx' = 0
    /\ UNCHANGED <<variant, callers, pc, call, calibrated, modules, threads, log_mutex,
                   unit_i, votes, hw, audit>>

QC_MLLog ==
    /\ variant = "single" /\ pc = "ml_loop"
    /\ ~MoreShots(shot, call.shots)
    /\ MainLog([action |-> "measure_logical", qubits |-> call.qubits,
                shots |-> call.shots, results |-> results])
    /\ pc' = "returned"
    /\ UNCHANGED <<variant, callers, call, calibrated, modules, threads, idx, unit_i, shot,
                   votes, corrected, results, hw>>

---------------------------------------------------------------------------
\* The multi-module program: QuantumModule and QuantumSupercomputer.

\* What a caller passes: module identities and sizes to the constructor,
\* unit indices and moduleID arguments to the operations.  Index 2 is outside
\* every module; MaxModules is never a position of the modules vector.
ModuleIDs == {0, 1}
ModuleSizes == {2}
ModuleIndices == {0, 1, 2}
ModuleArgs == 0 .. MaxModules
ModuleGroups == { [i \in 1 .. k |-> i - 1] : k \in 0 .. MaxGroup }

\* QuantumModule(id, n)
NewModule(id, n) ==
    [moduleID |-> id, num_qubits |-> n, calibrated |-> [u \in 0 .. n - 1 |-> FALSE]]

\* What a pointer read outside the modules vector points to: nothing of the
\* program.  Every flag read on it is a read outside a vector.
GarbageID == -2
GarbageModule == [moduleID |-> GarbageID, num_qubits |-> 0, calibrated |-> <<>>]

\* Mutant of Resolve: modules[0] whatever the moduleID.
ResolveFirst(mods, moduleID) ==
    IF moduleID \in 0 .. Len(mods) - 1
    THEN {[crash |-> FALSE, mod |-> mods[1]]}
    ELSE {[crash |-> TRUE, mod |-> GarbageModule], [crash |-> FALSE, mod |-> GarbageModule]}

\* modules[moduleID]: std::vector::operator[] does no bounds check.  Outside
\* the vector the process dies or goes on with a garbage pointer.
Resolve(mods, moduleID) ==
    IF moduleID \in 0 .. Len(mods) - 1
    THEN {[crash |-> FALSE, mod |-> mods[moduleID + 1]]}
    ELSE {[crash |-> TRUE, mod |-> GarbageModule], [crash |-> FALSE, mod |-> GarbageModule]}

\* Mutant of ModuleCalibrateQubit: the whole module is marked calibrated.
ModuleCalibrateQubitAll(mod, q) ==
    { [crash |-> w.crash,
       hw |-> <<HwCalibrate(q, mod.moduleID)>>,
       mod |-> [mod EXCEPT !.calibrated = [u \in DOMAIN w.cal |-> TRUE]]]
      : w \in WriteFlag(mod.calibrated, q) }

\* QuantumModule::calibrateQubit
ModuleCalibrateQubit(mod, q) ==
    { [crash |-> w.crash,
       hw |-> <<HwCalibrate(q, mod.moduleID)>>,
       mod |-> [mod EXCEPT !.calibrated = w.cal]] : w \in WriteFlag(mod.calibrated, q) }

\* QuantumModule::applyGate
ModuleApplyGate(mod, g, q) ==
    { [crash |-> r.crash,
       hw |-> IF ~r.crash /\ r.val THEN <<HwPulse(q, g, mod.moduleID)>> ELSE <<>>]
      : r \in ReadFlag(mod.calibrated, q) }

\* QuantumModule::applyTwoQubitGate
ModuleApplyTwoQubitGate(mod, q1, q2, g) ==
    { [crash |-> r.crash,
       hw |-> IF ~r.crash /\ r.val
              THEN <<HwTwoPulse(q1, mod.moduleID, q2, mod.moduleID, g)>> ELSE <<>>]
      : r \in BothCalibrated(mod.calibrated, q1, q2) }

\* supercomp.addModule(new QuantumModule(id, n))
SC_AddModule ==
    /\ variant = "multi" /\ pc = "idle"
    /\ Len(modules) < MaxModules
    /\ \E id \in ModuleIDs, n \in ModuleSizes :
          /\ Begin([op |-> "addModule", id |-> id], <<>>, <<>>)
          /\ modules' = Append(modules, NewModule(id, n))
    /\ pc' = "returned"
    /\ UNCHANGED <<variant, callers, calibrated, log_mutex>>

\* QuantumSupercomputer::calibrateAll
SC_CalibrateAll ==
    /\ variant = "multi" /\ pc = "idle"
    /\ Begin([op |-> "calibrateAll"], <<>>, <<>>)
    /\ pc' = "calall"
    /\ UNCHANGED <<variant, callers, calibrated, modules, log_mutex>>

\* Mutant of SC_CalibrateAllStep: the inner loop runs from the last unit down.
SC_CalibrateAllStepDescending ==
    /\ variant = "multi" /\ pc = "calall"
    /\ idx < Len(modules) /\ unit_i < modules[idx + 1].num_qubits
    /\ \E o \in ModuleCalibrateQubit(modules[idx + 1],
                                     modules[idx + 1].num_qubits - 1 - unit_i) :
          /\ hw' = hw \o o.hw
          /\ modules' = [modules EXCEPT ![idx + 1] = o.mod]
          /\ pc' = IF o.crash THEN "crashed" ELSE pc
    /\ unit_i' = unit_i + 1
    /\ UNCHANGED <<variant, callers, call, calibrated, threads, log_mutex, idx, shot,
                   votes, corrected, results, audit>>

\* mod->calibrateQubit(i); i++
SC_CalibrateAllStep ==
    /\ variant = "multi" /\ pc = "calall"
    /\ idx < Len(modules) /\ unit_i < modules[idx + 1].num_qubits
    /\ \E o \in ModuleCalibrateQubit(modules[idx + 1], unit_i) :
          /\ hw' = hw \o o.hw
          /\ modules' = [modules EXCEPT ![idx + 1] = o.mod]
          /\ pc' = IF o.crash THEN "crashed" ELSE pc
    /\ unit_i' = unit_i + 1
    /\ UNCHANGED <<variant, callers, call, calibrated, threads, log_mutex, idx, shot,
                   votes, corrected, results, audit>>

\* the inner loop is over: the next module
SC_CalibrateAllNextModule ==
    /\ variant = "multi" /\ pc = "calall"
    /\ idx < Len(modules) /\ ~(unit_i < modules[idx + 1].num_qubits)
    /\ idx' = idx + 1
    /\ unit_i' = 0
    /\ UNCHANGED <<variant, callers, pc, call, calibrated, modules, threads, log_mutex,
                   shot, votes, corrected, results, hw, audit>>

SC_CalibrateAllReturn ==
    /\ variant = "multi" /\ pc = "calall"
    /\ idx = Len(modules)
    /\ pc' = "returned"
    /\ UNCHANGED <<variant, callers, call, calibrated, modules, threads, log_mutex, idx,
                   unit_i, shot, votes, corrected, results, hw, audit>>

\* QuantumModule::calibrateQubit called on a registered module
M_CalibrateQubit ==
    /\ variant = "multi" /\ pc = "idle"
    /\ \E m \in 1 .. Len(modules), q \in ModuleIndices :
       \E o \in ModuleCalibrateQubit(modules[m], q) :
          /\ Begin([op |-> "module.calibrateQubit", m |-> m, q |-> q], o.hw, <<>>)
          /\ modules' = [modules EXCEPT ![m] = o.mod]
          /\ pc' = IF o.crash THEN "crashed" ELSE "returned"
    /\ UNCHANGED <<variant, callers, calibrated, log_mutex>>

\* QuantumModule::applyTwoQubitGate called on a registered module
M_ApplyTwoQubitGate ==
    /\ variant = "multi" /\ pc = "idle"
    /\ \E m \in 1 .. Len(modules), q1 \in ModuleIndices, q2 \in ModuleIndices,
          g \in TwoGateNames :
       \E o \in ModuleApplyTwoQubitGate(modules[m], q1, q2, g) :
          /\ Begin([op |-> "module.applyTwoQubitGate", m |-> m, q1 |-> q1, q2 |-> q2,
                    gate |-> g], o.hw, <<>>)
          /\ pc' = IF o.crash THEN "crashed" ELSE "returned"
    /\ UNCHANGED <<variant, callers, calibrated, modules, log_mutex>>

\* QuantumSupercomputer::applyGate: modules[moduleID]->applyGate(gate, q)
SC_ApplyGate ==
    /\ variant = "multi" /\ pc = "idle"
    /\ \E moduleID \in ModuleArgs, g \in GateNames, q \in ModuleIndices :
       \E r \in Resolve(modules, moduleID) :
       \E o \in ModuleApplyGate(r.mod, g, q) :
          /\ Begin([op |-> "applyGate", moduleID |-> moduleID, gate |-> g, q |-> q],
                   IF r.crash THEN <<>> ELSE o.hw, <<>>)
          /\ pc' = IF r.crash \/ o.crash THEN "crashed" ELSE "returned"
    /\ UNCHANGED <<variant, callers, calibrated, modules, log_mutex>>

\* Mutant of SC_ApplyTwoQubitGate: the cross-module gate gated on the
\* calibration of both units, like the gate inside a module.
SC_ApplyTwoQubitGateGated ==
    /\ variant = "multi" /\ pc = "idle"
    /\ \E module1 \in ModuleArgs, module2 \in ModuleArgs, q1 \in ModuleIndices,
          q2 \in ModuleIndices, g \in TwoGateNames :
       \E r1 \in Resolve(modules, module1), r2 \in Resolve(modules, module2) :
       \E f1 \in ReadFlag(r1.mod.calibrated, q1), f2 \in ReadFlag(r2.mod.calibrated, q2) :
          Begin([op |-> "sc.applyTwoQubitGate", module1 |-> module1, q1 |-> q1,
                 module2 |-> module2, q2 |-> q2, gate |-> g],
                IF f1.val /\ f2.val
                THEN <<HwTwoPulse(q1, module1, q2, module2, g)>> ELSE <<>>, <<>>)
    /\ pc' = "returned"
    /\ UNCHANGED <<variant, callers, calibrated, modules, log_mutex>>

\* QuantumSupercomputer::applyTwoQubitGate: straight to the hardware
SC_ApplyTwoQubitGate ==
    /\ variant = "multi" /\ pc = "idle"
    /\ \E module1 \in ModuleArgs, module2 \in ModuleArgs, q1 \in ModuleIndices,
          q2 \in ModuleIndices, g \in TwoGateNames :
          Begin([op |-> "sc.applyTwoQubitGate", module1 |-> module1, q1 |-> q1,
                 module2 |-> module2, q2 |-> q2, gate |-> g],
                <<HwTwoPulse(q1, module1, q2, module2, g)>>, <<>>)
    /\ pc' = "returned"
    /\ UNCHANGED <<variant, callers, calibrated, modules, log_mutex>>

\* QuantumSupercomputer::measureLogical: modules[moduleID]->measureLogical(...).
\* call.mid is the moduleID field of the module the pointer led to.
SC_MeasureLogical ==
    /\ variant = "multi" /\ pc = "idle"
    /\ \E moduleID \in ModuleArgs, group \in ModuleGroups, shots \in Shots :
       \E r \in Resolve(modules, moduleID) :
          /\ Begin([op |-> "sc.measureLogical", moduleID |-> moduleID, qubits |-> group,
                    shots |-> shots, mid |-> r.mod.moduleID], <<>>, ZeroHist)
          /\ pc' = IF r.crash THEN "crashed" ELSE "sml_loop"
    /\ UNCHANGED <<variant, callers, calibrated, modules, log_mutex>>

\* QuantumModule::measureLogical, one shot: the reads in group order, the
\* decode, the bucket
SC_MLShot ==
    /\ variant = "multi" /\ pc = "sml_loop"
    /\ MoreShots(shot, call.shots)
    /\ \E v \in [1 .. Len(call.qubits) -> ReadState] :
          /\ votes' = v
          /\ corrected' = Decode(v)
          /\ results' = MapIncrement(results, to_string(Decode(v)))
    /\ hw' = hw \o [i \in 1 .. Len(call.qubits) |-> HwRead(call.qubits[i], call.mid)]
    /\ shot' = shot + 1
    /\ UNCHANGED <<variant, callers, pc, call, calibrated, modules, threads, log_mutex,
                   idx, unit_i, audit>>

SC_MLReturn ==
    /\ variant = "multi" /\ pc = "sml_loop"
    /\ ~MoreShots(shot, call.shots)
    /\ pc' = "returned"
    /\ UNCHANGED <<variant, callers, call, calibrated, modules, threads, log_mutex, idx,
                   unit_i, shot, votes, corrected, results, hw, audit>>

NextMulti ==
    \/ SC_AddModule
    \/ SC_CalibrateAll
    \/ SC_CalibrateAllStep
    \/ SC_CalibrateAllNextModule
    \/ SC_CalibrateAllReturn
    \/ M_CalibrateQubit
    \/ M_ApplyTwoQubitGate
    \/ SC_ApplyGate
    \/ SC_ApplyTwoQubitGate
    \/ SC_MeasureLogical
    \/ SC_MLShot
    \/ SC_MLReturn

---------------------------------------------------------------------------
NextSingle ==
    \/ QC_CalibrateQubit
    \/ QC_ApplyGateParallel
    \/ QC_ApplyTwoQubitGate
    \/ QC_MeasurePhysical
    \/ QC_MeasureLogical
    \/ QC_CalibrateSetFlag
    \/ QC_CalibrateLog
    \/ QC_GateSpawn
    \/ \E t \in 1 .. MaxTargets : QC_TaskCheck(t)
    \/ \E t \in 1 .. MaxTargets : QC_TaskPulse(t)
    \/ \E t \in 1 .. MaxTargets : QC_TaskLogLock(t)
    \/ \E t \in 1 .. MaxTargets : QC_TaskLogWrite(t)
    \/ QC_GateJoin
    \/ QC_GateReturn
    \/ QC_TwoPulse
    \/ QC_TwoLog
    \/ QC_MPRead
    \/ QC_MPNextShot
    \/ QC_MPLog
    \/ QC_MLRead
    \/ QC_MLDecode
    \/ QC_MLLog

Next ==
    \/ NextSingle
    \/ NextMulti
    \/ Continue

Spec == Init /\ [][Next]_vars

---------------------------------------------------------------------------
\* Several threads calling into one QuantumComputer.
\*
\* callers[c] is the frame of calling thread c: its position, its call, the
\* threads its applyGateParallel has spawned, the number of them it has
\* joined, and the word of calibrated it has loaded.  calibrated and log_mutex
\* are shared.  hw and audit are here the hardware calls and the audit records
\* of the whole run, in the order in which they were made; a calibrate call
\* is entered when it has returned, a pulse when it is issued.  A thread is
\* named <<c, t>>: t = 0 is calling thread c itself, t >= 1 its t-th task.
\* log_mutex is the thread that holds the mutex, NoThread when it is free.
\* The callers pass unit indices inside the vector.
\*
\* Nothing synchronises the accesses to calibrated, a std::vector<bool>: the
\* threads race on the word that holds the flags.  A read sees the word as
\* the last store left it; calibrated[q] = true loads the word and stores it
\* back with one more bit set, and whatever another thread stored in between
\* is lost.

Callers == {1, 2}
NoThread == <<0, 0>>

\* A caller starts a call only while the run has made fewer hardware calls.
MaxTrace == 2

\* The target lists the callers pass, and the numbers of the tasks of a call.
ConcTargetLists == {<<0>>, <<1>>, <<0, 1>>, <<1, 0>>}
ConcTasks == {1, 2}

IdleCaller == [pc |-> "idle", call |-> NoCall, threads |-> <<>>, idx |-> 0, word |-> <<>>]

ConcInit ==
    /\ variant = "concurrent"
    /\ callers = [c \in Callers |-> IdleCaller]
    /\ pc = "idle"
    /\ call = NoCall
    /\ calibrated = [u \in Units |-> FALSE]
    /\ modules = <<>>
    /\ threads = <<>>
    /\ log_mutex = NoThread
    /\ idx = 0
    /\ unit_i = 0
    /\ shot = 0
    /\ votes = <<>>
    /\ corrected = -1
    /\ results = <<>>
    /\ hw = <<>>
    /\ audit = <<>>

\* The frame of the single caller of Spec is not used.
ConcFrame ==
    UNCHANGED <<variant, pc, call, modules, threads, idx, unit_i, shot, votes, corrected,
                results>>

\* calibrateQubit: HardwareInterface::calibrate(q) has returned
CC_CalibrateQubit(c) ==
    /\ variant = "concurrent" /\ callers[c].pc = "idle"
    /\ Len(hw) < MaxTrace
    /\ \E q \in Units :
          /\ callers' = [callers EXCEPT ![c].pc = "cal_flag",
                                        ![c].call = [op |-> "calibrateQubit", q |-> q]]
          /\ hw' = Append(hw, HwCalibrate(q, NoModule))
    /\ UNCHANGED <<calibrated, log_mutex, audit>>
    /\ ConcFrame

\* calibrated[q] = true on a std::vector<bool>: the word holding the bit is
\* loaded, ...
CC_CalibrateLoad(c) ==
    /\ variant = "concurrent" /\ callers[c].pc = "cal_flag"
    /\ callers' = [callers EXCEPT ![c].pc = "cal_store", ![c].word = calibrated]
    /\ UNCHANGED <<calibrated, log_mutex, hw, audit>>
    /\ ConcFrame

\* ... and stored back with the bit set.  Without synchronisation the store
\* overwrites what other threads have stored into the word since the load.
CC_CalibrateStore(c) ==
    /\ variant = "concurrent" /\ callers[c].pc = "cal_store"
    /\ calibrated' = [callers[c].word EXCEPT ![callers[c].call.q] = TRUE]
    /\ callers' = [callers EXCEPT ![c].pc = "log", ![c].word = <<>>]
    /\ UNCHANGED <<log_mutex, hw, audit>>
    /\ ConcFrame

\* The record a calling thread hands to log().
CallerRecord(c) ==
    IF callers[c].call.op = "calibrateQubit"
    THEN [action |-> "calibrate", qubit |-> callers[c].call.q]
    ELSE [action |-> "two_qubit_gate", gate |-> callers[c].call.gate,
          qubits |-> <<callers[c].call.q1, callers[c].call.q2>>]

\* Mutant of CC_LogLock: log() without the lock_guard.
CC_LogLockNoMutex(c) ==
    /\ variant = "concurrent" /\ callers[c].pc = "log"
    /\ log_mutex' = <<c, 0>>
    /\ callers' = [callers EXCEPT ![c].pc = "locked"]
    /\ UNCHANGED <<calibrated, hw, audit>>
    /\ ConcFrame

\* log() called by a calling thread: std::lock_guard<std::mutex> guard(log_mutex)
CC_LogLock(c) ==
    /\ variant = "concurrent" /\ callers[c].pc = "log"
    /\ log_mutex = NoThread
    /\ log_mutex' = <<c, 0>>
    /\ callers' = [callers EXCEPT ![c].pc = "locked"]
    /\ UNCHANGED <<calibrated, hw, audit>>
    /\ ConcFrame

\* log(): the record is written, the guard releases the mutex; log() was the
\* last statement of the operation, which returns
CC_LogWrite(c) ==
    /\ variant = "concurrent" /\ callers[c].pc = "locked"
    /\ audit' = Append(audit, CallerRecord(c))
    /\ log_mutex' = NoThread
    /\ callers' = [callers EXCEPT ![c] = IdleCaller]
    /\ UNCHANGED <<calibrated, hw>>
    /\ ConcFrame

\* applyGateParallel
CC_ApplyGateParallel(c) ==
    /\ variant = "concurrent" /\ callers[c].pc = "idle"
    /\ Len(hw) < MaxTrace
    /\ \E g \in GateNames, qubits \in ConcTargetLists :
          callers' = [callers EXCEPT
                         ![c].pc = "gate",
                         ![c].call = [op |-> "applyGateParallel", gate |-> g,
                                      qubits |-> qubits]]
    /\ UNCHANGED <<calibrated, log_mutex, hw, audit>>
    /\ ConcFrame

\* threads.emplace_back(...) for the next q of the list
CC_GateSpawn(c) ==
    /\ variant = "concurrent" /\ callers[c].pc = "gate"
    /\ Len(callers[c].threads) < Len(callers[c].call.qubits)
    /\ callers' = [callers EXCEPT ![c].threads =
                      Append(@, [q |-> callers[c].call.qubits[Len(@) + 1],
                                 st |-> "ready"])]
    /\ UNCHANGED <<calibrated, log_mutex, hw, audit>>
    /\ ConcFrame

\* Mutant of CC_TaskCheck: the thread body without its calibration test.
CC_TaskCheckUnguarded(c, t) ==
    /\ variant = "concurrent" /\ callers[c].pc = "gate"
    /\ t \in 1 .. Len(callers[c].threads) /\ callers[c].threads[t].st = "ready"
    /\ callers' = [callers EXCEPT ![c].threads[t].st = "pulse"]
    /\ UNCHANGED <<calibrated, log_mutex, hw, audit>>
    /\ ConcFrame

\* the thread body: if (calibrated[q]), read while other threads may store
CC_TaskCheck(c, t) ==
    /\ variant = "concurrent" /\ callers[c].pc = "gate"
    /\ t \in 1 .. Len(callers[c].threads) /\ callers[c].threads[t].st = "ready"
    /\ callers' = [callers EXCEPT ![c].threads[t].st =
                      IF calibrated[callers[c].threads[t].q] THEN "pulse" ELSE "done"]
    /\ UNCHANGED <<calibrated, log_mutex, hw, audit>>
    /\ ConcFrame

\* HardwareInterface::sendPulse(q, gate)
CC_TaskPulse(c, t) ==
    /\ variant = "concurrent" /\ callers[c].pc = "gate"
    /\ t \in 1 .. Len(callers[c].threads) /\ callers[c].threads[t].st = "pulse"
    /\ hw' = Append(hw, HwPulse(callers[c].threads[t].q, callers[c].call.gate, NoModule))
    /\ callers' = [callers EXCEPT ![c].threads[t].st = "log"]
    /\ UNCHANGED <<calibrated, log_mutex, audit>>
    /\ ConcFrame

\* log() called by a task: std::lock_guard<std::mutex> guard(log_mutex)
CC_TaskLogLock(c, t) ==
    /\ variant = "concurrent" /\ callers[c].pc = "gate"
    /\ t \in 1 .. Len(callers[c].threads) /\ callers[c].threads[t].st = "log"
    /\ log_mutex = NoThread
    /\ log_mutex' = <<c, t>>
    /\ callers' = [callers EXCEPT ![c].threads[t].st = "locked"]
    /\ UNCHANGED <<calibrated, hw, audit>>
    /\ ConcFrame

\* Mutant of CC_TaskLogWrite: the mutex is not released after the append.
CC_TaskLogWriteKeepLock(c, t) ==
    /\ variant = "concurrent" /\ callers[c].pc = "gate"
    /\ t \in 1 .. Len(callers[c].threads) /\ callers[c].threads[t].st = "locked"
    /\ audit' = Append(audit, [action |-> "gate", gate |-> callers[c].call.gate,
                               qubits |-> <<callers[c].threads[t].q>>])
    /\ callers' = [callers EXCEPT ![c].threads[t].st = "done"]
    /\ UNCHANGED <<calibrated, log_mutex, hw>>
    /\ ConcFrame

\* log(): the record is written, the guard releases the mutex, the task ends
CC_TaskLogWrite(c, t) ==
    /\ variant = "concurrent" /\ callers[c].pc = "gate"
    /\ t \in 1 .. Len(callers[c].threads) /\ callers[c].threads[t].st = "locked"
    /\ audit' = Append(audit, [action |-> "gate", gate |-> callers[c].call.gate,
                               qubits |-> <<callers[c].threads[t].q>>])
    /\ log_mutex' = NoThread
    /\ callers' = [callers EXCEPT ![c].threads[t].st = "done"]
    /\ UNCHANGED <<calibrated, hw>>
    /\ ConcFrame

\* for (auto &t : threads) t.join(): idx threads have been joined
CC_GateJoin(c) ==
    /\ variant = "concurrent" /\ callers[c].pc = "gate"
    /\ Len(callers[c].threads) = Len(callers[c].call.qubits)
    /\ callers[c].idx < Len(callers[c].threads)
    /\ callers[c].threads[callers[c].idx + 1].st = "done"
    /\ callers' = [callers EXCEPT ![c].idx = @ + 1]
    /\ UNCHANGED <<calibrated, log_mutex, hw, audit>>
    /\ ConcFrame

CC_GateReturn(c) ==
    /\ variant = "concurrent" /\ callers[c].pc = "gate"
    /\ Len(callers[c].threads) = Len(callers[c].call.qubits)
    /\ callers[c].idx = Len(callers[c].threads)
    /\ callers' = [callers EXCEPT ![c] = IdleCaller]
    /\ UNCHANGED <<calibrated, log_mutex, hw, audit>>
    /\ ConcFrame

\* applyTwoQubitGate
CC_ApplyTwoQubitGate(c) ==
    /\ variant = "concurrent" /\ callers[c].pc = "idle"
    /\ Len(hw) < MaxTrace
    /\ \E g \in TwoGateNames, q1 \in Units, q2 \in Units :
          callers' = [callers EXCEPT
                         ![c].pc = "two_check1",
                         ![c].call = [op |-> "applyTwoQubitGate", gate |-> g,
                                      q1 |-> q1, q2 |-> q2]]
    /\ UNCHANGED <<calibrated, log_mutex, hw, audit>>
    /\ ConcFrame

\* if (calibrated[q1] && ...: false ends the operation
CC_TwoCheckFirst(c) ==
    /\ variant = "concurrent" /\ callers[c].pc = "two_check1"
    /\ callers' = IF calibrated[callers[c].call.q1]
                  THEN [callers EXCEPT ![c].pc = "two_check2"]
                  ELSE [callers EXCEPT ![c] = IdleCaller]
    /\ UNCHANGED <<calibrated, log_mutex, hw, audit>>
    /\ ConcFrame

\* ... && calibrated[q2])
CC_TwoCheckSecond(c) ==
    /\ variant = "concurrent" /\ callers[c].pc = "two_check2"
    /\ callers' = IF calibrated[callers[c].call.q2]
                  THEN [callers EXCEPT ![c].pc = "two_pulse"]
                  ELSE [callers EXCEPT ![c] = IdleCaller]
    /\ UNCHANGED <<calibrated, log_mutex, hw, audit>>
    /\ ConcFrame

\* HardwareInterface::sendTwoQubitPulse(q1, q2, gate)
CC_TwoPulse(c) ==
    /\ variant = "concurrent" /\ callers[c].pc = "two_pulse"
    /\ hw' = Append(hw, HwTwoPulse(callers[c].call.q1, NoModule, callers[c].call.q2,
                                   NoModule, callers[c].call.gate))
    /\ callers' = [callers EXCEPT ![c].pc = "log"]
    /\ UNCHANGED <<calibrated, log_mutex, audit>>
    /\ ConcFrame

\* The steps of calling thread c inside an operation, but for taking the mutex.
CallerSteps(c) ==
    \/ CC_CalibrateLoad(c)
    \/ CC_CalibrateStore(c)
    \/ CC_LogWrite(c)
    \/ CC_GateSpawn(c)
    \/ CC_GateJoin(c)
    \/ CC_GateReturn(c)
    \/ CC_TwoCheckFirst(c)
    \/ CC_TwoCheckSecond(c)
    \/ CC_TwoPulse(c)

\* The steps of the t-th task of caller c, but for taking the mutex.
TaskSteps(c, t) ==
    \/ CC_TaskCheck(c, t)
    \/ CC_TaskPulse(c, t)
    \/ CC_TaskLogWrite(c, t)

ConcNext ==
    \/ \E c \in Callers : CC_CalibrateQubit(c)
    \/ \E c \in Callers : CC_CalibrateLoad(c)
    \/ \E c \in Callers : CC_CalibrateStore(c)
    \/ \E c \in Callers : CC_LogLock(c)
    \/ \E c \in Callers : CC_LogWrite(c)
    \/ \E c \in Callers : CC_ApplyGateParallel(c)
    \/ \E c \in Callers : CC_GateSpawn(c)
    \/ \E c \in Callers, t \in ConcTasks : CC_TaskCheck(c, t)
    \/ \E c \in Callers, t \in ConcTasks : CC_TaskPulse(c, t)
    \/ \E c \in Callers, t \in ConcTasks : CC_TaskLogLock(c, t)
    \/ \E c \in Callers, t \in ConcTasks : CC_TaskLogWrite(c, t)
    \/ \E c \in Callers : CC_GateJoin(c)
    \/ \E c \in Callers : CC_GateReturn(c)
    \/ \E c \in Callers : CC_ApplyTwoQubitGate(c)
    \/ \E c \in Callers : CC_TwoCheckFirst(c)
    \/ \E c \in Callers : CC_TwoCheckSecond(c)
    \/ \E c \in Callers : CC_TwoPulse(c)

ConcSpec == ConcInit /\ [][ConcNext]_vars

\* Every thread inside an operation is scheduled again and again, and a
\* thread that waits for the mutex gets it when it is free again and again.
ConcFairness ==
    /\ \A c \in Callers : WF_vars(CallerSteps(c)) /\ SF_vars(CC_LogLock(c))
    /\ \A c \in Callers : \A t \in ConcTasks :
          WF_vars(TaskSteps(c, t)) /\ SF_vars(CC_TaskLogLock(c, t))

ConcFairSpec == ConcInit /\ [][ConcNext]_vars /\ ConcFairness

---------------------------------------------------------------------------
\* Properties.

PulsesTo(u) ==
    Cardinality({ k \in 1 .. Len(hw) : hw[k].call = "sendPulse" /\ hw[k].q = u })
GateRecordsFor(u) ==
    Cardinality({ k \in 1 .. Len(audit) :
                    audit[k].action = "gate" /\ u \in Elems(audit[k].qubits) })
Occurrences(s, x) == Cardinality({ i \in 1 .. Len(s) : s[i] = x })
Ones(v) == Cardinality({ i \in 1 .. Len(v) : v[i] = 1 })
Registered(moduleID) == moduleID \in 0 .. Len(modules) - 1

\* C1: a single-unit gate on a unit whose calibration flag is false issues no
\* pulse for that unit and appends no audit record for it, whatever the rest
\* of the target list and the calibration state are, and the call does not
\* fail: applyGateParallel in the single-module program, the routed
\* QuantumModule::applyGate in the multi-module program.
C1_GateSkipsUncalibrated ==
    /\ (variant = "single" /\ call.op = "applyGateParallel") =>
          /\ \A u \in Units :
                ~calibrated[u] => PulsesTo(u) = 0 /\ GateRecordsFor(u) = 0
          /\ Elems(call.qubits) \subseteq Units => pc # "crashed"
    /\ (variant = "multi" /\ call.op = "applyGate" /\ Registered(call.moduleID)) =>
          LET mod == modules[call.moduleID + 1] IN
          (call.q \in DOMAIN mod.calibrated /\ ~mod.calibrated[call.q]) =>
              hw = <<>> /\ audit = <<>> /\ pc = "returned"

\* C1 witness: a parallel gate over an uncalibrated and a calibrated unit has
\* returned, and only the calibrated one was pulsed.
C1_Witness ==
    /\ variant = "single" /\ pc = "returned" /\ call.op = "applyGateParallel"
    /\ \E u \in Elems(call.qubits) \cap Units, v \in Elems(call.qubits) \cap Units :
          ~calibrated[u] /\ calibrated[v] /\ PulsesTo(v) = 1 /\ Len(hw) = 1

\* C2: when applyTwoQubitGate(gate, q1, q2) of the single-module program has
\* returned, it has issued exactly one two-unit pulse and appended exactly one
\* audit record if both units were calibrated, and none of either otherwise.
C2_TwoQubitAllOrNothing ==
    (variant = "single" /\ call.op = "applyTwoQubitGate"
       /\ call.q1 \in Units /\ call.q2 \in Units) =>
       /\ pc # "crashed"
       /\ pc = "returned" =>
             IF calibrated[call.q1] /\ calibrated[call.q2]
             THEN /\ hw = <<HwTwoPulse(call.q1, NoModule, call.q2, NoModule, call.gate)>>
                  /\ Len(audit) = 1 /\ audit[1].action = "two_qubit_gate"
                  /\ audit[1].qubits = <<call.q1, call.q2>>
             ELSE hw = <<>> /\ audit = <<>>
       /\ ~(calibrated[call.q1] /\ calibrated[call.q2]) => hw = <<>> /\ audit = <<>>

\* C2 witness: a two-unit gate on two distinct calibrated units has returned
\* with its pulse and its record.
C2_Witness ==
    /\ variant = "single" /\ pc = "returned" /\ call.op = "applyTwoQubitGate"
    /\ call.q1 \in Units /\ call.q2 \in Units /\ call.q1 # call.q2
    /\ calibrated[call.q1] /\ calibrated[call.q2]
    /\ Len(hw) = 1 /\ Len(audit) = 1

\* C3: applyGateParallel has returned only when a thread was spawned for every
\* target and every one of them has finished; every pulse sent has been
\* logged by then, and over valid targets the pulses are exactly those of the
\* calibrated targets.
C3_ParallelBarrier ==
    (variant = "single" /\ call.op = "applyGateParallel" /\ pc = "returned") =>
       /\ Len(threads) = Len(call.qubits)
       /\ \A t \in 1 .. Len(threads) : threads[t].st = "done"
       /\ log_mutex = 0
       /\ Len(audit) = Len(hw)
       /\ Elems(call.qubits) \subseteq Units =>
             \A u \in Units :
                /\ PulsesTo(u) = IF calibrated[u] THEN Occurrences(call.qubits, u) ELSE 0
                /\ GateRecordsFor(u) = PulsesTo(u)

\* C3 witness: a parallel gate over at least two distinct units has returned
\* with at least two pulses sent.
C3_Witness ==
    /\ variant = "single" /\ pc = "returned" /\ call.op = "applyGateParallel"
    /\ Cardinality(Elems(call.qubits)) >= 2
    /\ Len(hw) >= 2

\* C4: once calibrateQubit(u) has returned, the flag of u is true whatever it
\* was before, and no step of any operation turns a true flag false: in both
\* programs a flag that is true stays true.
C4_CalibrationMonotone ==
    [][ /\ (variant = "single" /\ pc' = "returned" /\ call'.op = "calibrateQubit"
              /\ call'.q \in Units) => calibrated'[call'.q]
        /\ (variant = "multi" /\ pc' = "returned" /\ call'.op = "module.calibrateQubit"
              /\ call'.q \in DOMAIN modules'[call'.m].calibrated)
              => modules'[call'.m].calibrated[call'.q]
        /\ \A u \in Units : calibrated[u] => calibrated'[u]
        /\ \A m \in 1 .. Len(modules) : \A u \in DOMAIN modules[m].calibrated :
              modules[m].calibrated[u] =>
                 /\ m <= Len(modules')
                 /\ u \in DOMAIN modules'[m].calibrated
                 /\ modules'[m].calibrated[u] ]_vars

\* C4 witness: a unit was calibrated, and a later gate call that pulsed it
\* has returned with the flag still true.
C4_Witness ==
    /\ variant = "single" /\ pc = "returned" /\ call.op = "applyGateParallel"
    /\ \E u \in Units : calibrated[u] /\ PulsesTo(u) >= 1

\* C5: the logical bit of a shot is 1 exactly when the ones among the k votes
\* of the shot are a strict majority (twice the ones exceed k), else 0; a tie
\* for even k and the empty group give 0.
C5_DecoderRule ==
    /\ (variant = "single" /\ call.op = "measureLogical" /\ corrected # -1 /\ idx = 0) =>
          /\ Len(votes) = Len(call.qubits)
          /\ corrected = IF 2 * Ones(votes) > Len(votes) THEN 1 ELSE 0
    /\ (variant = "multi" /\ call.op = "sc.measureLogical" /\ corrected # -1) =>
          /\ Len(votes) = Len(call.qubits)
          /\ corrected = IF 2 * Ones(votes) > Len(votes) THEN 1 ELSE 0
    /\ (call.op \in {"measureLogical", "sc.measureLogical"} /\ pc # "crashed") =>
          (corrected = -1 <=> shot = 0)

\* C5 witness: a shot over two units read one 1 and one 0 and was decoded to 0.
C5_Witness ==
    /\ variant = "single" /\ call.op = "measureLogical" /\ idx = 0
    /\ Len(votes) = 2 /\ Ones(votes) = 1 /\ corrected = 0

\* C6: measureLogical with shots = S returns a histogram with exactly the
\* buckets "0" and "1" whose counts add up to S, whatever the readouts; while
\* it runs the counts add up to the shots done.
C6_LogicalHistogram ==
    (call.op \in {"measureLogical", "sc.measureLogical"} /\ pc # "crashed") =>
       /\ DOMAIN results = {"0", "1"}
       /\ results["0"] >= 0 /\ results["1"] >= 0
       /\ results["0"] + results["1"] = shot
       /\ pc = "returned" => shot = call.shots

\* C6 witness: a logical measurement of two or more shots has returned with
\* both buckets used.
C6_Witness ==
    /\ call.op = "measureLogical" /\ pc = "returned" /\ call.shots >= 2
    /\ results["0"] >= 1 /\ results["1"] >= 1

\* C7 as stated: measurePhysical with shots = S returns, for every requested
\* unit, zero and one counts that add up to S.
C7_Original ==
    (variant = "single" /\ call.op = "measurePhysical" /\ pc = "returned") =>
       \A q \in Elems(call.qubits) : results[q]["0"] + results[q]["1"] = call.shots

\* C7 amended: the counts of a requested unit add up to S times the number of
\* times the unit occurs in the list (S when it is listed once); the result
\* has one histogram per requested unit, with the buckets "0" and "1".
C7_PhysicalHistogram ==
    (variant = "single" /\ call.op = "measurePhysical" /\ pc = "returned") =>
       /\ DOMAIN results = Elems(call.qubits)
       /\ \A q \in Elems(call.qubits) :
             /\ DOMAIN results[q] = {"0", "1"}
             /\ results[q]["0"] >= 0 /\ results[q]["1"] >= 0
             /\ results[q]["0"] + results[q]["1"]
                   = call.shots * Occurrences(call.qubits, q)

\* C7 witness: a physical measurement of a list naming one unit twice and
\* another once has returned after at least one shot.
C7_Witness ==
    /\ variant = "single" /\ call.op = "measurePhysical" /\ pc = "returned"
    /\ call.shots >= 1
    /\ \E q \in Elems(call.qubits) : Occurrences(call.qubits, q) = 2

\* C8 as stated: applyGate and measureLogical of the cluster, given a moduleID
\* that resolves to no registered module, fail with UnknownModule and issue no
\* hardware call.
C8_Original ==
    (variant = "multi" /\ call.op \in {"applyGate", "sc.measureLogical"}
       /\ ~Registered(call.moduleID)) =>
       pc = "UnknownModule" /\ hw = <<>>

\* C9 as stated: calibrateQubit, a single-unit gate and a two-unit gate, given
\* a unit index outside [0, numUnits), fail with InvalidUnitIndex before any
\* hardware call for that unit.
C9_Original ==
    /\ (variant = "single" /\ call.op = "calibrateQubit" /\ call.q \notin Units) =>
          pc = "InvalidUnitIndex" /\ hw = <<>>
    /\ (variant = "single" /\ call.op = "applyGateParallel"
          /\ ~(Elems(call.qubits) \subseteq Units)) =>
          pc = "InvalidUnitIndex" /\ \A q \in Elems(call.qubits) \ Units : PulsesTo(q) = 0
    /\ (variant = "single" /\ call.op = "applyTwoQubitGate"
          /\ ~({call.q1, call.q2} \subseteq Units)) =>
          pc = "InvalidUnitIndex" /\ hw = <<>>
    /\ (variant = "multi" /\ call.op = "module.calibrateQubit"
          /\ call.q \notin DOMAIN modules[call.m].calibrated) =>
          pc = "InvalidUnitIndex" /\ hw = <<>>
    /\ (variant = "multi" /\ call.op = "module.applyTwoQubitGate"
          /\ ~({call.q1, call.q2} \subseteq DOMAIN modules[call.m].calibrated)) =>
          pc = "InvalidUnitIndex" /\ hw = <<>>
    /\ (variant = "multi" /\ call.op = "applyGate" /\ Registered(call.moduleID)
          /\ call.q \notin DOMAIN modules[call.moduleID + 1].calibrated) =>
          pc = "InvalidUnitIndex" /\ hw = <<>>

\* C10: the cross-module two-unit gate of the cluster issues exactly one
\* cross-module pulse, carrying its arguments, in every calibration state; the
\* two-unit gate of a module issues its pulse exactly when both units are
\* calibrated.
C10_CrossModuleAsymmetry ==
    /\ (variant = "multi" /\ call.op = "sc.applyTwoQubitGate") =>
          /\ pc = "returned"
          /\ hw = <<HwTwoPulse(call.q1, call.module1, call.q2, call.module2, call.gate)>>
    /\ (variant = "multi" /\ call.op = "module.applyTwoQubitGate"
          /\ {call.q1, call.q2} \subseteq DOMAIN modules[call.m].calibrated) =>
          LET mod == modules[call.m] IN
          /\ pc = "returned"
          /\ hw = IF mod.calibrated[call.q1] /\ mod.calibrated[call.q2]
                  THEN <<HwTwoPulse(call.q1, mod.moduleID, call.q2, mod.moduleID,
                                    call.gate)>>
                  ELSE <<>>

\* C10 witness: a cross-module gate between two registered modules has issued
\* its pulse although its first unit is uncalibrated.
C10_Witness ==
    /\ variant = "multi" /\ pc = "returned" /\ call.op = "sc.applyTwoQubitGate"
    /\ Registered(call.module1) /\ Registered(call.module2)
    /\ call.module1 # call.module2
    /\ call.q1 \in DOMAIN modules[call.module1 + 1].calibrated
    /\ ~modules[call.module1 + 1].calibrated[call.q1]
    /\ Len(hw) = 1

\* A module identifier is registered when it is a position of the modules
\* vector or the moduleID of a module held there.
RegisteredIdentifier(x) ==
    \/ Registered(x)
    \/ \E i \in 1 .. Len(modules) : modules[i].moduleID = x

\* C11 as stated: every cluster operation that addresses a moduleId resolves
\* it to a registered module or fails, and no hardware call ever carries a
\* module identifier that is not registered in the cluster.
C11_Original ==
    variant = "multi" =>
       /\ \A k \in 1 .. Len(hw) :
             /\ RegisteredIdentifier(hw[k].m)
             /\ hw[k].call = "sendTwoQubitPulse" => RegisteredIdentifier(hw[k].m2)
       /\ (call.op \in {"applyGate", "sc.measureLogical"} /\ ~Registered(call.moduleID))
             => pc # "returned" /\ pc # "sml_loop"
       /\ (call.op = "sc.applyTwoQubitGate"
             /\ ~(Registered(call.module1) /\ Registered(call.module2)))
             => pc # "returned"

\* The per-unit threads of the current applyGateParallel call that have been
\* spawned and have not finished.
RunningTasks == { t \in 1 .. Len(threads) : threads[t].st # "done" }

\* C13 as stated: within one applyGateParallel call, whatever target list it
\* was given, no two of its per-unit threads that run at the same time work
\* on the same unit index.
C13_Original ==
    (variant = "single" /\ call.op = "applyGateParallel") =>
       \A t1 \in RunningTasks, t2 \in RunningTasks :
          t1 # t2 => threads[t1].q # threads[t2].q

\* The calibrate calls of a full calibration: module by module in registration
\* order, each module's units in ascending order.
RECURSIVE CalibrateAllCalls(_)
CalibrateAllCalls(mods) ==
    IF mods = <<>> THEN <<>>
    ELSE [i \in 1 .. Head(mods).num_qubits |-> HwCalibrate(i - 1, Head(mods).moduleID)]
         \o CalibrateAllCalls(Tail(mods))

IsPrefix(s, t) == Len(s) <= Len(t) /\ \A i \in 1 .. Len(s) : s[i] = t[i]

\* C14: when calibrateAll() has returned, every unit of every registered
\* module has its calibration flag true, and the hardware calls of the call
\* are exactly one calibrate per unit of every module, the modules in
\* registration order and the units of each module in ascending order; while
\* it runs, the calls made so far are the beginning of that sequence and the
\* units already passed are calibrated.
C14_CalibrateAll ==
    (variant = "multi" /\ call.op = "calibrateAll") =>
       /\ pc # "crashed"
       /\ IsPrefix(hw, CalibrateAllCalls(modules))
       /\ \A m \in 1 .. Len(modules) : \A u \in 0 .. modules[m].num_qubits - 1 :
             (m <= idx \/ (m = idx + 1 /\ u < unit_i)) => modules[m].calibrated[u]
       /\ pc = "returned" =>
             /\ hw = CalibrateAllCalls(modules)
             /\ \A m \in 1 .. Len(modules) : \A u \in 0 .. modules[m].num_qubits - 1 :
                   modules[m].calibrated[u]

\* C14 witness: calibrateAll has returned on a cluster of two modules with
\* different identities, after one calibrate call per unit.
C14_Witness ==
    /\ variant = "multi" /\ pc = "returned" /\ call.op = "calibrateAll"
    /\ Len(modules) = 2
    /\ Len(hw) = modules[1].num_qubits + modules[2].num_qubits
    /\ modules[1].moduleID # modules[2].moduleID

FullyCalibrated(mod) == \A u \in DOMAIN mod.calibrated : mod.calibrated[u]

\* C15: in a cluster all of whose modules are fully calibrated (what
\* calibrateAll leaves behind), applyGate(m, gate, u) for a registered m and a
\* unit u of that module returns after exactly one hardware call: one pulse of
\* that gate on unit u carrying the identity of the module registered at
\* position m.
C15_RoutedDispatch ==
    (variant = "multi" /\ call.op = "applyGate" /\ Registered(call.moduleID)
       /\ call.q \in DOMAIN modules[call.moduleID + 1].calibrated
       /\ \A m \in 1 .. Len(modules) : FullyCalibrated(modules[m])) =>
       /\ pc = "returned"
       /\ hw = <<HwPulse(call.q, call.gate, modules[call.moduleID + 1].moduleID)>>

\* C15 witness: in a fully calibrated cluster of two modules with different
\* identities, neither equal to the position it is registered at, applyGate
\* addressed to the second module has returned with a pulse.
C15_Witness ==
    /\ variant = "multi" /\ pc = "returned" /\ call.op = "applyGate"
    /\ Len(modules) = 2 /\ call.moduleID = 1
    /\ modules[1].moduleID = 1 /\ modules[2].moduleID = 0
    /\ \A m \in 1 .. Len(modules) : FullyCalibrated(modules[m])
    /\ call.q \in DOMAIN modules[2].calibrated
    /\ Len(hw) = 1

\* C16: every calibrateQubit(u) of the single-module program, whether or not
\* u is already calibrated, makes exactly one hardware calibrate call for u,
\* then sets the flag of u, then appends exactly one calibrate record for u;
\* and a flag that was false becomes true only in the step that follows the
\* return of the hardware calibrate call for that unit.
C16_CalibrateStepOrder ==
    [][ /\ (variant' = "single" /\ call'.op = "calibrateQubit") =>
             /\ hw' = <<HwCalibrate(call'.q, NoModule)>>
             /\ pc' \in {"cal_flag", "cal_log", "returned", "crashed"}
             /\ pc' = "cal_flag" => audit' = <<>>
             /\ pc' = "cal_log" =>
                   audit' = <<>> /\ (call'.q \in Units => calibrated'[call'.q])
             /\ pc' = "returned" =>
                   /\ audit' = <<[action |-> "calibrate", qubit |-> call'.q]>>
                   /\ call'.q \in Units => calibrated'[call'.q]
             /\ call'.q \in Units => pc' # "crashed"
        /\ variant = "single" =>
             \A u \in Units : (~calibrated[u] /\ calibrated'[u]) =>
                /\ pc = "cal_flag" /\ pc' = "cal_log"
                /\ call.op = "calibrateQubit" /\ call.q = u
                /\ hw = <<HwCalibrate(u, NoModule)>> ]_vars

\* C16 witness: calibrateQubit is running on a unit that is already
\* calibrated, and its hardware calibrate call has been made.
C16_Witness ==
    /\ variant = "single" /\ pc = "cal_flag" /\ call.op = "calibrateQubit"
    /\ call.q \in Units /\ calibrated[call.q]
    /\ hw = <<HwCalibrate(call.q, NoModule)>>

\* C17: measureLogical over a group of k units with S shots reads, in every
\* shot, each unit of the group once in group order, decodes only when all k
\* have been read and then counts the shot in one bucket; the readouts are
\* S*k in all when it returns, whatever the calibration flags are, and its one
\* measure_logical record is appended after the last shot has been counted
\* and carries the final histogram.
C17_LogicalPipeline ==
    (variant = "single" /\ call.op = "measureLogical") =>
       LET k == Len(call.qubits) IN
       /\ pc \in {"ml_loop", "returned"}
       /\ idx <= k /\ shot <= call.shots
       /\ Len(hw) = shot * k + idx
       /\ \A j \in 1 .. Len(hw) : hw[j] = HwRead(call.qubits[((j - 1) % k) + 1], NoModule)
       /\ idx > 0 => Len(votes) = idx
       /\ results["0"] + results["1"] = shot
       /\ pc = "ml_loop" => audit = <<>>
       /\ pc = "returned" =>
             /\ shot = call.shots /\ idx = 0
             /\ Len(hw) = call.shots * k
             /\ audit = <<[action |-> "measure_logical", qubits |-> call.qubits,
                           shots |-> call.shots, results |-> results]>>

\* C17 witness: a logical measurement of two shots over a group of three
\* entries, one of them an uncalibrated unit, has returned after six readouts.
C17_Witness ==
    /\ variant = "single" /\ call.op = "measureLogical" /\ pc = "returned"
    /\ Len(call.qubits) = 3 /\ call.shots = 2 /\ Len(hw) = 6
    /\ \E i \in 1 .. 3 : ~calibrated[call.qubits[i]]
    /\ Len(audit) = 1

\* The operations that are not calibrateQubit, calibrateAll or addModule.
NonCalibratingOps ==
    {"applyGateParallel", "applyTwoQubitGate", "measurePhysical", "measureLogical",
     "applyGate", "sc.applyTwoQubitGate", "module.applyTwoQubitGate", "sc.measureLogical"}

\* C18: a calibration flag changes only in the flag-setting step of
\* calibrateQubit on the module that owns the unit (called directly or from
\* calibrateAll), and that step changes the flag of its unit only; no step of
\* a gate or measurement operation changes any flag; addModule appends a
\* module and leaves the modules already registered, and their flags, as they
\* were.
C18_CalibrationFrame ==
    [][ /\ variant = "single" =>
             \A u \in Units : calibrated'[u] # calibrated[u] =>
                pc = "cal_flag" /\ call.op = "calibrateQubit" /\ call.q = u
        /\ variant = "multi" =>
             /\ Len(modules') >= Len(modules)
             /\ \A m \in 1 .. Len(modules) :
                   /\ modules'[m].moduleID = modules[m].moduleID
                   /\ DOMAIN modules'[m].calibrated = DOMAIN modules[m].calibrated
                   /\ \A u \in DOMAIN modules[m].calibrated :
                         modules'[m].calibrated[u] # modules[m].calibrated[u] =>
                            \/ /\ pc = "idle" /\ call'.op = "module.calibrateQubit"
                               /\ call'.m = m /\ call'.q = u
                            \/ /\ pc = "calall" /\ call.op = "calibrateAll"
                               /\ idx + 1 = m /\ unit_i = u
             /\ Len(modules') > Len(modules) =>
                   /\ call'.op = "addModule"
                   /\ modules' = Append(modules, modules'[Len(modules')])
        /\ (call.op \in NonCalibratingOps \/ call'.op \in NonCalibratingOps) =>
             calibrated' = calibrated /\ modules' = modules ]_vars

\* C18 witness: calibrateQubit on a unit of the first of two modules has
\* returned; another unit of that module and the units of the other module
\* are still uncalibrated.
C18_Witness ==
    /\ variant = "multi" /\ pc = "returned" /\ call.op = "module.calibrateQubit"
    /\ Len(modules) = 2 /\ call.m = 1
    /\ call.q \in DOMAIN modules[1].calibrated /\ modules[1].calibrated[call.q]
    /\ \E u \in DOMAIN modules[1].calibrated : ~modules[1].calibrated[u]
    /\ \A u \in DOMAIN modules[2].calibrated : ~modules[2].calibrated[u]

\* The threads that are inside the record-append section of log().
InLog ==
    { th \in Callers \X ({0} \cup ConcTasks) :
         IF th[2] = 0
         THEN callers[th[1]].pc = "locked"
         ELSE /\ th[2] <= Len(callers[th[1]].threads)
              /\ callers[th[1]].threads[th[2]].st = "locked" }

\* C12: with several calling threads and all their per-unit tasks running at
\* the same time, at most one thread is inside the record-append section of
\* log(), and it is the thread that holds log_mutex; a step that changes the
\* audit log appends exactly one whole record to it, is taken by that thread,
\* and leaves the section.  The order of the records of different threads is
\* not fixed.
C12_LogMutualExclusion ==
    [][ /\ Cardinality(InLog') <= 1
        /\ InLog' = IF log_mutex' = NoThread THEN {} ELSE {log_mutex'}
        /\ audit' # audit =>
             /\ Len(audit') = Len(audit) + 1
             /\ SubSeq(audit', 1, Len(audit)) = audit
             /\ InLog = {log_mutex}
             /\ log_mutex' = NoThread ]_vars

\* C12 witness: a calling thread is inside the append section of log() while
\* a task of another call waits for the mutex with its record.
C12_Witness ==
    /\ variant = "concurrent"
    /\ \E c \in Callers, d \in Callers :
          /\ c # d /\ callers[c].pc = "locked" /\ log_mutex = <<c, 0>>
          /\ \E t \in 1 .. Len(callers[d].threads) : callers[d].threads[t].st = "log"

\* A hardware calibrate call for unit u has returned before the k-th
\* hardware call of the run.
CalibratedBefore(u, k) ==
    \E j \in 1 .. k - 1 : hw[j] = HwCalibrate(u, NoModule)

\* C19: whatever the interleaving of calibrateQubit, applyGateParallel and
\* applyTwoQubitGate calls made by several threads on one object, every
\* single-unit pulse sent to a unit, and every two-unit pulse for each of its
\* two units, comes after the return of a hardware calibrate call for that
\* unit.
C19_NoPulseBeforeCalibration ==
    variant = "concurrent" =>
       \A k \in 1 .. Len(hw) :
          /\ hw[k].call = "sendPulse" => CalibratedBefore(hw[k].q, k)
          /\ hw[k].call = "sendTwoQubitPulse" =>
                CalibratedBefore(hw[k].q, k) /\ CalibratedBefore(hw[k].q2, k)

\* C19 witness: a task has sent the pulse for a unit while a calibrateQubit
\* of another thread for the same unit is between its hardware call and its
\* store to the flag.
C19_Witness ==
    /\ variant = "concurrent"
    /\ \E c \in Callers, d \in Callers :
          /\ c # d
          /\ callers[c].pc \in {"cal_flag", "cal_store"}
          /\ \E t \in 1 .. Len(callers[d].threads) :
                /\ callers[d].threads[t].q = callers[c].call.q
                /\ callers[d].threads[t].st = "log"
          /\ \E k \in 1 .. Len(hw) :
                hw[k].call = "sendPulse" /\ hw[k].q = callers[c].call.q

\* Some step of a thread that is inside an operation.
ConcProgress ==
    \E c \in Callers :
       \/ CallerSteps(c)
       \/ CC_LogLock(c)
       \/ \E t \in ConcTasks : TaskSteps(c, t) \/ CC_TaskLogLock(c, t)

\* The thread that holds the mutex can take its next step, the write of its
\* record.
HolderCanWrite ==
    IF log_mutex[2] = 0
    THEN ENABLED CC_LogWrite(log_mutex[1])
    ELSE ENABLED CC_TaskLogWrite(log_mutex[1], log_mutex[2])

\* C20: with every thread scheduled fairly and several applyGateParallel and
\* other calls running at the same time, every applyGateParallel call
\* returns; the step that appends a record releases the mutex; the thread
\* that holds the mutex is never waiting for anything; and whenever a call is
\* in progress some thread inside a call can take a step.
C20_FanOutTerminates ==
    /\ \A c \in Callers : (callers[c].pc = "gate") ~> (callers[c].pc = "idle")
    /\ [][audit' # audit => log_mutex' = NoThread]_vars
    /\ [](log_mutex # NoThread => HolderCanWrite)
    /\ []((\E c \in Callers : callers[c].pc # "idle") => ENABLED ConcProgress)

\* C20 witness: both calling threads are inside applyGateParallel, a task of
\* one holds the mutex and a task of the other waits for it.
C20_Witness ==
    /\ variant = "concurrent"
    /\ \A c \in Callers : callers[c].pc = "gate"
    /\ \E c \in Callers, d \in Callers :
          /\ c # d
          /\ \E t \in 1 .. Len(callers[c].threads) :
                callers[c].threads[t].st = "locked"
          /\ \E t \in 1 .. Len(callers[d].threads) :
                callers[d].threads[t].st = "log"

====
